---- MODULE Spec2Model ----
(***************************************************************************)
(* Admission control of mini-compete: CompetitionsService.register run by  *)
(* concurrent request handlers against one PostgreSQL store (Prisma        *)
(* interactive transaction, default READ COMMITTED isolation) and the Bull *)
(* 'email' queue fed by QueueService.addConfirmationEmail.                 *)
(*                                                                         *)
(* Every await of register is one step of a call: between two awaits the   *)
(* JavaScript continuation runs without interruption, and the statements   *)
(* other calls send to the store interleave freely at the awaits.          *)
(***************************************************************************)
EXTENDS Integers, FiniteSets, Sequences, Bags, TLC

\* ------------------------------------------------------------------ bounds
MaxCalls == 2          \* request handlers that may run register
MaxUsers == 2          \* participants
MaxKeys == 1           \* distinct Idempotency-Key header values
MaxTime == 1           \* the clock runs 0..MaxTime
MaxCapacity == 2       \* capacity of the open competition is 1..MaxCapacity
MaxWorkers == 1        \* processes consuming the 'email' queue
MaxReminders == 1      \* reminder jobs a scheduler run adds
MaxStalls == 1         \* worker crashes a job lives through
MaxRuns == 2           \* invocations of the reminder scheduler

Calls == 1..MaxCalls
Users == 1..MaxUsers
NoKey == 0             \* idempotencyKey undefined (header absent)
Keys == 1..MaxKeys
Workers == 1..MaxWorkers
\* Job ids are opaque names: the confirmation job of a call carries the call's
\* number, reminder jobs the numbers after them.
ReminderIds == (MaxCalls + 1)..(MaxCalls + MaxReminders)
JobIds == Calls \cup ReminderIds
RegDeadline == 0       \* regDeadline of the stored competitions (clock units)

\* Competition ids a caller may pass: one stored and open, one stored and
\* soft-deleted (deletedAt set), one not stored at all.
OpenCompetition == "open"
DeletedCompetition == "deleted"
AbsentCompetition == "absent"
CompetitionIds == {OpenCompetition, DeletedCompetition, AbsentCompetition}
StoredIds == {OpenCompetition, DeletedCompetition}

VARIABLES
  competitions,   \* table Competition: id -> row (read-only to register)
  registrations,  \* table Registration: set of rows, committed or not yet
  emailQueue,     \* Bull queue 'email': set of jobs
  now,            \* the clock read by new Date()
  pc,             \* per call: the await it is suspended at
  request,        \* per call: the arguments (competitionId, userId, idempotencyKey)
  competition,    \* per call: the local `competition` read inside the transaction
  registration,   \* per call: id of the row the transaction created (0: none)
  result,         \* per call: what register returned or threw
  invoked,        \* per call: what held when the call was made (history)
  wpc,            \* per worker: where the processing of its job stands
  wjob,           \* per worker: id of the job it holds (0: none)
  mailBox,        \* table MailBox: bag of rows
  failedJobs,     \* table FailedJob: bag of rows
  executions,     \* per job id: how often a worker took the job (history)
  runs            \* invocations of the reminder scheduler so far

admissionVars == <<competitions, registrations, now, pc, request, competition,
                   registration, result, invoked>>
workerVars == <<wpc, wjob, mailBox, failedJobs, executions>>
schedulerVars == <<runs>>
vars == <<competitions, registrations, emailQueue, now, pc, request,
          competition, registration, result, invoked,
          wpc, wjob, mailBox, failedJobs, executions, runs>>

\* ------------------------------------------------------------ store reads
NoCompetition == [found |-> FALSE, deletedAt |-> FALSE, capacity |-> 0,
                  regDeadline |-> 0, count |-> 0]
NoRequest == [competitionId |-> "", userId |-> 0, idempotencyKey |-> NoKey]
NoResult == [type |-> "none", id |-> 0, userId |-> 0, competitionId |-> ""]
NotInvoked == [late |-> FALSE, held |-> FALSE, prior |-> 0]

\* Rows another connection can see under READ COMMITTED.
Committed == {r \in registrations : r.committed}

\* _count.registrations of a competition
CountRegistrations(c) == Cardinality({r \in Committed : r.competitionId = c})

\* A lookup that never finds the stored row.
FindByKey_Miss(k) == {}

\* prisma.registration.findUnique({ where: { idempotencyKey } })
FindByKey(k) == {r \in Committed : r.idempotencyKey = k}

\* tx.registration.findUnique({ where: { userId_competitionId } })
FindByUserCompetition(u, c) ==
  {r \in Committed : r.userId = u /\ r.competitionId = c}

\* tx.competition.findUnique({ where: { id }, include: { _count } })
ReadCompetition(c) ==
  IF c \in DOMAIN competitions
  THEN [found |-> TRUE,
        deletedAt |-> competitions[c].deletedAt,
        capacity |-> competitions[c].capacity,
        regDeadline |-> competitions[c].regDeadline,
        count |-> CountRegistrations(c)]
  ELSE NoCompetition

\* ---------------------------------------------------- the checks of register
\* The soft-delete marker left unchecked.
CompetitionMissing_IgnoreDeleted(comp) == ~comp.found

\* if (!competition || competition.deletedAt)
CompetitionMissing(comp) == ~comp.found \/ comp.deletedAt

\* The comparison turned around.
DeadlinePassed_Reversed(t, comp) == t < comp.regDeadline

\* The deadline instant itself counted as passed.
DeadlinePassed_AtDeadline(t, comp) == t >= comp.regDeadline

\* if (new Date() > competition.regDeadline)
DeadlinePassed(t, comp) == t > comp.regDeadline

\* if (competition._count.registrations >= competition.capacity)
CompetitionFull(comp) == comp.count >= comp.capacity

\* if (existing) return existing, taken only while registration is still open.
LookupHit_WhileOpen(existing) == existing # {} /\ now <= RegDeadline

\* if (existing) return existing
LookupHit(existing) == existing # {}

\* The duplicate check left out.
AlreadyRegistered_Unchecked(u, c) == FALSE

\* if (existingReg) throw new ConflictException('Already registered ...')
AlreadyRegistered(u, c) == FindByUserCompetition(u, c) # {}

\* The table without its compound unique index.
PairConflict_NoIndex(r, u, c) == FALSE

\* @@unique([userId, competitionId])
PairConflict(r, u, c) == r.userId = u /\ r.competitionId = c

\* The column without its unique index.
KeyConflict_NoIndex(r, k) == FALSE

\* idempotencyKey String? @unique (NULLs never conflict)
KeyConflict(r, k) == k # NoKey /\ r.idempotencyKey = k

UniqueConflict(r, req) ==
  \/ PairConflict(r, req.userId, req.competitionId)
  \/ KeyConflict(r, req.idempotencyKey)

Returned(r) == [type |-> "Registration", id |-> r.id, userId |-> r.userId,
                competitionId |-> r.competitionId]
Thrown(e) == [type |-> e, id |-> 0, userId |-> 0, competitionId |-> ""]

\* ------------------------------------------------------------------- Init
Init ==
  /\ \E cap \in 1..MaxCapacity :
       competitions =
         [c \in StoredIds |->
            [deletedAt |-> (c = DeletedCompetition), capacity |-> cap,
             regDeadline |-> RegDeadline]]
  /\ registrations = {}
  /\ emailQueue = {}
  /\ now = 0
  /\ pc = [p \in Calls |-> "idle"]
  /\ request = [p \in Calls |-> NoRequest]
  /\ competition = [p \in Calls |-> NoCompetition]
  /\ registration = [p \in Calls |-> 0]
  /\ result = [p \in Calls |-> NoResult]
  /\ invoked = [p \in Calls |-> NotInvoked]
  /\ wpc = [w \in Workers |-> "idle"]
  /\ wjob = [w \in Workers |-> 0]
  /\ mailBox = EmptyBag
  /\ failedJobs = EmptyBag
  /\ executions = [j \in JobIds |-> 0]
  /\ runs = 0

\* ---------------------------------------------------------------- actions
\* The Registration id a finished call carrying key k has returned (0: none yet).
PriorResult(k) ==
  LET ids == {result[q].id : q \in {q \in Calls :
                 /\ pc[q] = "done"
                 /\ k # NoKey
                 /\ request[q].idempotencyKey = k
                 /\ result[q].type = "Registration"}} IN
    IF ids = {} THEN 0 ELSE CHOOSE i \in ids : TRUE

\* Time passes.
Tick ==
  /\ now < MaxTime
  /\ now' = now + 1
  /\ UNCHANGED <<competitions, registrations, emailQueue, pc, request,
                 competition, registration, result, invoked>>
  /\ UNCHANGED workerVars
  /\ UNCHANGED schedulerVars

\* Call slots, users and keys are interchangeable names: the next call takes the
\* lowest free slot, and a user or key that no call has named yet is the
\* lowest-numbered such one.
UsersNamed == {request[q].userId : q \in {q \in Calls : pc[q] # "idle"}}
KeysNamed == {request[q].idempotencyKey : q \in {q \in Calls : pc[q] # "idle"}} \ {NoKey}
NextSlot(p) == \A q \in Calls : q < p => pc[q] # "idle"
UserChoices == {u \in Users : u <= Cardinality(UsersNamed) + 1}
KeyChoices == {NoKey} \cup {k \in Keys : k <= Cardinality(KeysNamed) + 1}

\* The controller calls register(id, req.user.id, idempotencyKey); the call runs
\* to its first await.
Invoke(p) ==
  /\ pc[p] = "idle"
  /\ NextSlot(p)
  /\ \E c \in CompetitionIds, u \in UserChoices, k \in KeyChoices :
       /\ request' = [request EXCEPT ![p] =
            [competitionId |-> c, userId |-> u, idempotencyKey |-> k]]
       /\ pc' = [pc EXCEPT ![p] = IF k # NoKey THEN "lookup" ELSE "txRead"]
       /\ invoked' = [invoked EXCEPT ![p] =
            [late |-> c \in DOMAIN competitions /\ now > competitions[c].regDeadline,
             held |-> \E r \in registrations :
                        r.committed /\ r.userId = u /\ r.competitionId = c,
             prior |-> PriorResult(k)]]
  /\ UNCHANGED <<competitions, registrations, emailQueue, now, competition,
                 registration, result>>
  /\ UNCHANGED workerVars
  /\ UNCHANGED schedulerVars

\* The job options of QueueService.
JobAttempts == 3        \* attempts: 3
BackoffDelay == 2000   \* backoff: { type: 'exponential', delay: 2000 } (ms)

\* emailQueue.add(name, data, opts): the job as Bull stores it, waiting.
NewJob(id, name, type, registrationId, userId, competitionId, removeOnComplete) ==
  [id |-> id, name |-> name, registrationId |-> registrationId,
   userId |-> userId, competitionId |-> competitionId, type |-> type,
   attempts |-> JobAttempts, backoffDelay |-> BackoffDelay,
   removeOnComplete |-> removeOnComplete, removeOnFail |-> FALSE,
   attemptsMade |-> 0, state |-> "waiting", delay |-> 0, backoffs |-> <<>>,
   stalls |-> 0]

\* A key hit that enqueues the confirmation once more.
KeyLookup_Reenqueue(p) ==
  /\ pc[p] = "lookup"
  /\ LET existing == FindByKey(request[p].idempotencyKey) IN
       IF LookupHit(existing)
       THEN LET r == CHOOSE r \in existing : TRUE IN
            /\ result' = [result EXCEPT ![p] = Returned(r)]
            /\ emailQueue' = emailQueue \cup
                 {NewJob(p, "sendConfirmation", "confirmation", r.id, r.userId,
                         r.competitionId, TRUE)}
            /\ pc' = [pc EXCEPT ![p] = "done"]
       ELSE /\ pc' = [pc EXCEPT ![p] = "txRead"]
            /\ UNCHANGED <<result, emailQueue>>
  /\ UNCHANGED <<competitions, registrations, now, request,
                 competition, registration, invoked>>
  /\ UNCHANGED workerVars
  /\ UNCHANGED schedulerVars

\* if (idempotencyKey) { existing = findUnique(...); if (existing) return existing }
KeyLookup(p) ==
  /\ pc[p] = "lookup"
  /\ LET existing == FindByKey(request[p].idempotencyKey) IN
       IF LookupHit(existing)
       THEN /\ result' = [result EXCEPT ![p] = Returned(CHOOSE r \in existing : TRUE)]
            /\ pc' = [pc EXCEPT ![p] = "done"]
       ELSE /\ pc' = [pc EXCEPT ![p] = "txRead"]
            /\ UNCHANGED result
  /\ UNCHANGED <<competitions, registrations, emailQueue, now, request,
                 competition, registration, invoked>>
  /\ UNCHANGED workerVars
  /\ UNCHANGED schedulerVars

\* $transaction begins; the competition row and its registration count are read.
TxRead(p) ==
  /\ pc[p] = "txRead"
  /\ competition' = [competition EXCEPT ![p] = ReadCompetition(request[p].competitionId)]
  /\ pc' = [pc EXCEPT ![p] = "txCheck"]
  /\ UNCHANGED <<competitions, registrations, emailQueue, now, request,
                 registration, result, invoked>>
  /\ UNCHANGED workerVars
  /\ UNCHANGED schedulerVars

\* The capacity check moved before the deadline check.
FirstFailingCheck_CapacityFirst(t, comp) ==
  IF CompetitionMissing(comp) THEN "NotFound"
  ELSE IF CompetitionFull(comp) THEN "CapacityExceeded"
  ELSE IF DeadlinePassed(t, comp) THEN "DeadlineExceeded"
  ELSE "none"

\* The three ifs after the read, in the order of the code.
FirstFailingCheck(t, comp) ==
  IF CompetitionMissing(comp) THEN "NotFound"
  ELSE IF DeadlinePassed(t, comp) THEN "DeadlineExceeded"
  ELSE IF CompetitionFull(comp) THEN "CapacityExceeded"
  ELSE "none"

\* The continuation after the read: not found, deadline, capacity, in this order;
\* a throw rolls the (still empty) transaction back.
TxCheck(p) ==
  /\ pc[p] = "txCheck"
  /\ LET comp == competition[p]
         err == FirstFailingCheck(now, comp) IN
       IF err # "none"
       THEN /\ result' = [result EXCEPT ![p] = Thrown(err)]
            /\ pc' = [pc EXCEPT ![p] = "done"]
       ELSE /\ pc' = [pc EXCEPT ![p] = "txFind"]
            /\ UNCHANGED result
  /\ competition' = [competition EXCEPT ![p] = NoCompetition]
  /\ UNCHANGED <<competitions, registrations, emailQueue, now, request,
                 registration, invoked>>
  /\ UNCHANGED workerVars
  /\ UNCHANGED schedulerVars

\* The duplicate check notifying the holder of the existing Registration again.
TxFind_NotifyExisting(p) ==
  /\ pc[p] = "txFind"
  /\ IF AlreadyRegistered(request[p].userId, request[p].competitionId)
     THEN LET r == CHOOSE r \in FindByUserCompetition(request[p].userId,
                                                      request[p].competitionId) : TRUE IN
          /\ result' = [result EXCEPT ![p] = Thrown("AlreadyRegistered")]
          /\ emailQueue' = emailQueue \cup
               {NewJob(p, "sendConfirmation", "confirmation", r.id, r.userId,
                       r.competitionId, TRUE)}
          /\ pc' = [pc EXCEPT ![p] = "done"]
     ELSE /\ pc' = [pc EXCEPT ![p] = "txCreate"]
          /\ UNCHANGED <<result, emailQueue>>
  /\ UNCHANGED <<competitions, registrations, now, request,
                 competition, registration, invoked>>
  /\ UNCHANGED workerVars
  /\ UNCHANGED schedulerVars

\* existingReg = tx.registration.findUnique(userId_competitionId)
TxFind(p) ==
  /\ pc[p] = "txFind"
  /\ IF AlreadyRegistered(request[p].userId, request[p].competitionId)
     THEN /\ result' = [result EXCEPT ![p] = Thrown("AlreadyRegistered")]
          /\ pc' = [pc EXCEPT ![p] = "done"]
     ELSE /\ pc' = [pc EXCEPT ![p] = "txCreate"]
          /\ UNCHANGED result
  /\ UNCHANGED <<competitions, registrations, emailQueue, now, request,
                 competition, registration, invoked>>
  /\ UNCHANGED workerVars
  /\ UNCHANGED schedulerVars

\* An upsert in place of the create: a committed conflicting row is replaced.
TxCreate_Upsert(p) ==
  /\ pc[p] = "txCreate"
  /\ ~\E r \in registrations : ~r.committed /\ UniqueConflict(r, request[p])
  /\ registrations' =
       {r \in registrations : ~UniqueConflict(r, request[p])} \cup
         {[id |-> p, userId |-> request[p].userId,
           competitionId |-> request[p].competitionId,
           idempotencyKey |-> request[p].idempotencyKey,
           committed |-> FALSE]}
  /\ registration' = [registration EXCEPT ![p] = p]
  /\ pc' = [pc EXCEPT ![p] = "txCommit"]
  /\ UNCHANGED <<competitions, emailQueue, now, request, competition, invoked,
                 result>>
  /\ UNCHANGED workerVars
  /\ UNCHANGED schedulerVars

\* tx.registration.create: the INSERT waits while a conflicting row of another
\* open transaction is undecided, fails on a committed conflicting row (P2002,
\* which register does not catch), and otherwise writes the row uncommitted.
TxCreate(p) ==
  /\ pc[p] = "txCreate"
  /\ ~\E r \in registrations : ~r.committed /\ UniqueConflict(r, request[p])
  /\ IF \E r \in Committed : UniqueConflict(r, request[p])
     THEN /\ result' = [result EXCEPT ![p] = Thrown("UniqueConstraintViolation")]
          /\ pc' = [pc EXCEPT ![p] = "done"]
          /\ UNCHANGED <<registrations, registration>>
     ELSE /\ registrations' = registrations \cup
               {[id |-> p, userId |-> request[p].userId,
                 competitionId |-> request[p].competitionId,
                 idempotencyKey |-> request[p].idempotencyKey,
                 committed |-> FALSE]}
          /\ registration' = [registration EXCEPT ![p] = p]
          /\ pc' = [pc EXCEPT ![p] = "txCommit"]
          /\ UNCHANGED result
  /\ UNCHANGED <<competitions, emailQueue, now, request, competition, invoked>>
  /\ UNCHANGED workerVars
  /\ UNCHANGED schedulerVars

\* The call goes on to the enqueue while its transaction is still open.
TxCommit_StillOpen(p) ==
  /\ pc[p] = "txCommit"
  /\ pc' = [pc EXCEPT ![p] = "enqueue"]
  /\ UNCHANGED <<competitions, registrations, emailQueue, now, request,
                 competition, registration, result, invoked>>
  /\ UNCHANGED workerVars
  /\ UNCHANGED schedulerVars

\* The callback returned: $transaction commits and the row becomes visible.
TxCommit(p) ==
  /\ pc[p] = "txCommit"
  /\ registrations' =
       {IF r.id = registration[p] THEN [r EXCEPT !.committed = TRUE] ELSE r :
          r \in registrations}
  /\ pc' = [pc EXCEPT ![p] = "enqueue"]
  /\ UNCHANGED <<competitions, emailQueue, now, request, competition,
                 registration, result, invoked>>
  /\ UNCHANGED workerVars
  /\ UNCHANGED schedulerVars

\* queueService.addConfirmationEmail(registration.id, userId, competitionId)
ConfirmationJob(p) ==
  NewJob(p, "sendConfirmation", "confirmation", registration[p],
         request[p].userId, request[p].competitionId, TRUE)

\* The failed enqueue thrown on to the caller.
EnqueueResult_Rethrown(r, added) ==
  IF added THEN Returned(r) ELSE Thrown("QueueUnavailable")

\* catch (error) { console.error(...) }  return registration
EnqueueResult(r, added) == Returned(r)

\* try { await addConfirmationEmail(...) } catch { console.error } return registration
Enqueue(p) ==
  /\ pc[p] = "enqueue"
  /\ \E added \in BOOLEAN :
       /\ emailQueue' = IF added THEN emailQueue \cup {ConfirmationJob(p)}
                        ELSE emailQueue
       /\ result' = [result EXCEPT ![p] =
            EnqueueResult(CHOOSE r \in registrations : r.id = registration[p], added)]
  /\ pc' = [pc EXCEPT ![p] = "done"]
  /\ UNCHANGED <<competitions, registrations, now, request, competition,
                 registration, invoked>>
  /\ UNCHANGED workerVars
  /\ UNCHANGED schedulerVars

Next ==
  \/ Tick
  \/ \E p \in Calls : Invoke(p)
  \/ \E p \in Calls : KeyLookup(p)
  \/ \E p \in Calls : TxRead(p)
  \/ \E p \in Calls : TxCheck(p)
  \/ \E p \in Calls : TxFind(p)
  \/ \E p \in Calls : TxCreate(p)
  \/ \E p \in Calls : TxCommit(p)
  \/ \E p \in Calls : Enqueue(p)

Spec == Init /\ [][Next]_vars

\* ------------------------------------------------- the organizer's update
\* update(id, dto, userId): a competition that is not stored throws NotFound, a
\* caller who did not create it throws Forbidden; otherwise the fields the dto
\* carries are written (a capacity of 0 is falsy and leaves the column alone).
Update(c) ==
  /\ \E owner \in BOOLEAN, cap \in 0..MaxCapacity,
        setDeadline \in BOOLEAN, deadline \in 0..MaxTime :
       competitions' =
         IF c \in DOMAIN competitions /\ owner
         THEN [competitions EXCEPT
                 ![c].capacity = IF cap # 0 THEN cap ELSE @,
                 ![c].regDeadline = IF setDeadline THEN deadline ELSE @]
         ELSE competitions
  /\ UNCHANGED <<registrations, emailQueue, now, pc, request, competition,
                 registration, result, invoked>>
  /\ UNCHANGED workerVars
  /\ UNCHANGED schedulerVars

\* A call made while no other call is running.
InvokeInTurn(p) ==
  /\ \A q \in Calls : pc[q] \in {"idle", "done"}
  /\ Invoke(p)

\* register calls one after the other, with updates of the competitions between
\* and during them.
NextUpdate ==
  \/ Tick
  \/ \E p \in Calls : InvokeInTurn(p)
  \/ \E p \in Calls : KeyLookup(p)
  \/ \E p \in Calls : TxRead(p)
  \/ \E p \in Calls : TxCheck(p)
  \/ \E p \in Calls : TxFind(p)
  \/ \E p \in Calls : TxCreate(p)
  \/ \E p \in Calls : TxCommit(p)
  \/ \E p \in Calls : Enqueue(p)
  \/ \E c \in CompetitionIds : Update(c)

SpecUpdate == Init /\ [][NextUpdate]_vars

\* ------------------------------------------------------ the 'email' queue
\* The job names QueueProcessor declares a @Process handler for.
Handlers == {"sendConfirmation"}

\* queueService.addReminderEmail(registrationId, userId, competitionId): the
\* options name neither removeOnComplete nor removeOnFail.
ReminderJob(i, r) ==
  NewJob(i, "sendReminder", "reminder", r.id, r.userId, r.competitionId, FALSE)

\* Reminder jobs are added registration by registration.
ReminderTarget(i) == i - MaxCalls

AddReminderEmail(i) ==
  /\ \A j \in emailQueue : j.id # i
  /\ \A k \in ReminderIds : k < i => \E j \in emailQueue : j.id = k
  /\ \E r \in Committed :
       /\ r.id = ReminderTarget(i)
       /\ emailQueue' = emailQueue \cup {ReminderJob(i, r)}
  /\ UNCHANGED admissionVars
  /\ UNCHANGED workerVars
  /\ UNCHANGED schedulerVars

RECURSIVE Pow2(_)
Pow2(n) == IF n = 0 THEN 1 ELSE 2 * Pow2(n - 1)

\* Bull's built-in strategy for backoff.type 'exponential':
\* Math.round((Math.pow(2, attemptsMade) - 1) * delay)
Backoff(delay, attemptsMade) == (Pow2(attemptsMade) - 1) * delay

Replace(j, k) == (emailQueue \ {j}) \cup {k}
JobOf(w) == CHOOSE j \in emailQueue : j.id = wjob[w]

\* The finished job put back on the wait list.
MoveToCompleted_Requeued(j) == Replace(j, [j EXCEPT !.state = "waiting"])

\* The handler returned: removeOnComplete deletes the job, otherwise it is kept
\* in the completed set.
MoveToCompleted(j) ==
  IF j.removeOnComplete
  THEN emailQueue \ {j}
  ELSE Replace(j, [j EXCEPT !.state = "completed"])

\* The retry test off by one.
Retries_OneMore(made, attempts) == made <= attempts

\* attempts: 3 -- a failed job is retried while attemptsMade < opts.attempts
Retries(made, attempts) == made < attempts

\* The retry that starts the count of attempts afresh.
MoveToFailed_CountReset(j) ==
  Replace(j, [j EXCEPT !.attemptsMade = 0, !.state = "failed"])

\* The handler threw: attemptsMade is incremented; the job is delayed by its
\* backoff while it has attempts left, and otherwise moved to the failed set,
\* where removeOnFail: false keeps it.
MoveToFailed(j) ==
  LET made == j.attemptsMade + 1
      d == Backoff(j.backoffDelay, made) IN
    IF Retries(made, j.attempts)
    THEN Replace(j, [j EXCEPT !.attemptsMade = made,
                              !.state = IF d = 0 THEN "waiting" ELSE "delayed",
                              !.delay = d,
                              !.backoffs = Append(@, d)])
    ELSE IF j.removeOnFail
         THEN emailQueue \ {j}
         ELSE Replace(j, [j EXCEPT !.attemptsMade = made, !.state = "failed"])

\* The row written without the job's id.
MailBoxRow_NoJobId(j, r) ==
  [userId |-> j.userId, to |-> r.userId, subject |-> r.competitionId,
   jobId |-> 0]

\* prisma.mailBox.create({ data: { userId, to, subject, body, jobId } })
MailBoxRow(j, r) ==
  [userId |-> j.userId, to |-> r.userId, subject |-> r.competitionId,
   jobId |-> j.id]

\* prisma.failedJob.create({ data: { jobName, jobData, error, attempts } })
FailedJobRow(j, error) ==
  [jobName |-> "sendConfirmation",
   jobData |-> [registrationId |-> j.registrationId, userId |-> j.userId,
                competitionId |-> j.competitionId, type |-> j.type],
   error |-> error,
   attempts |-> j.attemptsMade]

\* prisma.registration.findUnique({ where: { id: job.data.registrationId } })
FindRegistration(j) == {r \in Committed : r.id = j.registrationId}

\* An idle worker takes a waiting job; a job whose name has no handler fails
\* with 'Missing process handler for job type ...'.
Take(w) ==
  /\ wpc[w] = "idle"
  /\ \E j \in emailQueue :
       /\ j.state = "waiting"
       /\ emailQueue' = Replace(j, [j EXCEPT !.state = "active"])
       /\ wjob' = [wjob EXCEPT ![w] = j.id]
       /\ wpc' = [wpc EXCEPT ![w] =
            IF j.name \in Handlers THEN "handler" ELSE "missing"]
       /\ executions' = [executions EXCEPT ![j.id] = @ + 1]
  /\ UNCHANGED <<mailBox, failedJobs>>
  /\ UNCHANGED admissionVars
  /\ UNCHANGED schedulerVars

\* handleConfirmation runs through its try block and returns { success: true }.
HandlerSucceeds(w) ==
  /\ wpc[w] = "handler"
  /\ \E r \in FindRegistration(JobOf(w)) :
       mailBox' = mailBox (+) SetToBag({MailBoxRow(JobOf(w), r)})
  /\ emailQueue' = MoveToCompleted(JobOf(w))
  /\ wpc' = [wpc EXCEPT ![w] = "idle"]
  /\ wjob' = [wjob EXCEPT ![w] = 0]
  /\ UNCHANGED <<failedJobs, executions>>
  /\ UNCHANGED admissionVars
  /\ UNCHANGED schedulerVars

\* The try block throws ('Registration not found', or mailBox.create rejected by
\* the store); the catch block writes a FailedJob row and rethrows.
HandlerFails(w) ==
  /\ wpc[w] = "handler"
  /\ LET error == IF FindRegistration(JobOf(w)) = {}
                  THEN "Registration not found" ELSE "mailBox.create failed" IN
       failedJobs' = failedJobs (+) SetToBag({FailedJobRow(JobOf(w), error)})
  /\ emailQueue' = MoveToFailed(JobOf(w))
  /\ wpc' = [wpc EXCEPT ![w] = "idle"]
  /\ wjob' = [wjob EXCEPT ![w] = 0]
  /\ UNCHANGED <<mailBox, executions>>
  /\ UNCHANGED admissionVars
  /\ UNCHANGED schedulerVars

\* An await of the handler never settles; the job options set no timeout.
HandlerHangs(w) ==
  /\ wpc[w] = "handler"
  /\ wpc' = [wpc EXCEPT ![w] = "hung"]
  /\ UNCHANGED <<emailQueue, wjob, mailBox, failedJobs, executions>>
  /\ UNCHANGED admissionVars
  /\ UNCHANGED schedulerVars

\* No @Process('sendReminder') exists: the job fails without any handler run.
MissingHandler(w) ==
  /\ wpc[w] = "missing"
  /\ emailQueue' = MoveToFailed(JobOf(w))
  /\ wpc' = [wpc EXCEPT ![w] = "idle"]
  /\ wjob' = [wjob EXCEPT ![w] = 0]
  /\ UNCHANGED <<mailBox, failedJobs, executions>>
  /\ UNCHANGED admissionVars
  /\ UNCHANGED schedulerVars

\* Time passes by one base delay; a delayed job whose backoff has run out is
\* promoted to the wait list.
ClockStep == BackoffDelay
Elapse ==
  /\ \E j \in emailQueue : j.state = "delayed"
  /\ emailQueue' =
       {IF j.state = "delayed"
        THEN LET d == IF j.delay > ClockStep THEN j.delay - ClockStep ELSE 0 IN
               [j EXCEPT !.delay = d,
                         !.state = IF d = 0 THEN "waiting" ELSE "delayed"]
        ELSE j : j \in emailQueue}
  /\ UNCHANGED admissionVars
  /\ UNCHANGED workerVars
  /\ UNCHANGED schedulerVars

\* The queue is followed from the state in which the calls of distinct users
\* have committed their rows and stand before the enqueue.
QueueCalls == {p \in Calls : p <= MaxUsers /\ p <= MaxCapacity}
InitQueueWith(calls) ==
  /\ competitions =
       [c \in StoredIds |->
          [deletedAt |-> (c = DeletedCompetition), capacity |-> MaxCapacity,
           regDeadline |-> RegDeadline]]
  /\ registrations =
       {[id |-> p, userId |-> p, competitionId |-> OpenCompetition,
         idempotencyKey |-> NoKey, committed |-> TRUE] : p \in calls}
  /\ emailQueue = {}
  /\ now = 0
  /\ pc = [p \in Calls |-> IF p \in calls THEN "enqueue" ELSE "idle"]
  /\ request = [p \in Calls |->
       IF p \in calls
       THEN [competitionId |-> OpenCompetition, userId |-> p, idempotencyKey |-> NoKey]
       ELSE NoRequest]
  /\ competition = [p \in Calls |-> NoCompetition]
  /\ registration = [p \in Calls |-> IF p \in calls THEN p ELSE 0]
  /\ result = [p \in Calls |-> NoResult]
  /\ invoked = [p \in Calls |-> NotInvoked]
  /\ wpc = [w \in Workers |-> "idle"]
  /\ wjob = [w \in Workers |-> 0]
  /\ mailBox = EmptyBag
  /\ failedJobs = EmptyBag
  /\ executions = [j \in JobIds |-> 0]
  /\ runs = 0

InitQueue == InitQueueWith(QueueCalls)

NextQueue ==
  \/ \E p \in Calls : Enqueue(p)
  \/ \E i \in ReminderIds : AddReminderEmail(i)
  \/ \E w \in Workers : Take(w)
  \/ \E w \in Workers : HandlerSucceeds(w)
  \/ \E w \in Workers : HandlerFails(w)
  \/ \E w \in Workers : HandlerHangs(w)
  \/ \E w \in Workers : MissingHandler(w)
  \/ Elapse

SpecQueue == InitQueue /\ [][NextQueue]_vars

\* The worker keeps taking steps while it can.
FairSpecQueue == SpecQueue /\ WF_vars(NextQueue)

\* The queue with handlers that always return, the workers and the delay timer
\* taking their steps while they can.
NextReturning ==
  \/ \E p \in Calls : Enqueue(p)
  \/ \E i \in ReminderIds : AddReminderEmail(i)
  \/ \E w \in Workers : Take(w)
  \/ \E w \in Workers : HandlerSucceeds(w)
  \/ \E w \in Workers : HandlerFails(w)
  \/ \E w \in Workers : MissingHandler(w)
  \/ Elapse

\* One call stands before the enqueue; the reminders are added beside it.
InitReturning == InitQueueWith({p \in QueueCalls : \A q \in QueueCalls : p <= q})

FairSpecReturning ==
  /\ InitReturning /\ [][NextReturning]_vars
  /\ WF_vars(\E w \in Workers : Take(w))
  /\ WF_vars(\E w \in Workers : HandlerSucceeds(w) \/ HandlerFails(w))
  /\ WF_vars(\E w \in Workers : MissingHandler(w))
  /\ WF_vars(Elapse)

\* ------------------------------------------------------- a worker crash
\* The worker process dies after handleConfirmation has written the MailBox row
\* and before the job is moved to completed; the job's lock runs out and Bull's
\* stalled-job check puts the job back on the wait list.
CrashBeforeAck(w) ==
  /\ wpc[w] = "handler"
  /\ JobOf(w).stalls < MaxStalls
  /\ \E r \in FindRegistration(JobOf(w)) :
       mailBox' = mailBox (+) SetToBag({MailBoxRow(JobOf(w), r)})
  /\ emailQueue' = Replace(JobOf(w), [JobOf(w) EXCEPT !.state = "waiting",
                                                      !.stalls = @ + 1])
  /\ wpc' = [wpc EXCEPT ![w] = "idle"]
  /\ wjob' = [wjob EXCEPT ![w] = 0]
  /\ UNCHANGED <<failedJobs, executions>>
  /\ UNCHANGED admissionVars
  /\ UNCHANGED schedulerVars

NextCrash ==
  \/ NextQueue
  \/ \E w \in Workers : CrashBeforeAck(w)

SpecCrash == InitQueue /\ [][NextCrash]_vars

\* ------------------------------------------------- the reminder scheduler
\* sendReminders, run by the timer once per period: the competitions starting
\* inside the lookahead window are read with their registrations and one
\* reminder job is added per registration. The clock counts days here.
Lookahead == 1         \* tomorrow.setDate(tomorrow.getDate() + 1)
WindowDays == 1        \* dayAfter: the day after tomorrow
StartDates == 0..(MaxTime + Lookahead + WindowDays)

\* A window that takes every competition in.
InWindow_Always(c, t) == TRUE

\* where: { startDate: { gte: tomorrow, lt: dayAfter } }
InWindow(c, t) ==
  /\ competitions[c].startDate >= t + Lookahead
  /\ competitions[c].startDate < t + Lookahead + WindowDays

\* for (const comp of competitions) for (const reg of comp.registrations)
ReminderTargets(t) ==
  {r \in Committed : r.competitionId \in DOMAIN competitions
                     /\ InWindow(r.competitionId, t)}

ReminderJobsQueued == {j \in emailQueue : j.name = "sendReminder"}

\* The queue numbers the jobs as they are added.
NextJobId(r, targets) ==
  MaxCalls + Cardinality(ReminderJobsQueued)
           + Cardinality({q \in targets : q.id <= r.id})

SendReminders ==
  /\ runs < MaxRuns
  /\ runs' = runs + 1
  /\ LET targets == ReminderTargets(now) IN
       emailQueue' = emailQueue \cup
         {ReminderJob(NextJobId(r, targets), r) : r \in targets}
  /\ UNCHANGED admissionVars
  /\ UNCHANGED workerVars

\* The scheduler is followed from the state in which the calls of distinct users
\* have returned their Registrations and the confirmation jobs are queued; the
\* competitions start on any day.
InitScheduler ==
  /\ \E start \in [StoredIds -> StartDates] :
       competitions =
         [c \in StoredIds |->
            [deletedAt |-> (c = DeletedCompetition), capacity |-> MaxCapacity,
             regDeadline |-> RegDeadline, startDate |-> start[c]]]
  /\ registrations =
       {[id |-> p, userId |-> p, competitionId |-> OpenCompetition,
         idempotencyKey |-> NoKey, committed |-> TRUE] : p \in QueueCalls}
  /\ now = 0
  /\ pc = [p \in Calls |-> IF p \in QueueCalls THEN "done" ELSE "idle"]
  /\ request = [p \in Calls |->
       IF p \in QueueCalls
       THEN [competitionId |-> OpenCompetition, userId |-> p, idempotencyKey |-> NoKey]
       ELSE NoRequest]
  /\ competition = [p \in Calls |-> NoCompetition]
  /\ registration = [p \in Calls |-> IF p \in QueueCalls THEN p ELSE 0]
  /\ result = [p \in Calls |->
       IF p \in QueueCalls
       THEN Returned(CHOOSE r \in registrations : r.id = p) ELSE NoResult]
  /\ invoked = [p \in Calls |-> NotInvoked]
  /\ emailQueue = {ConfirmationJob(p) : p \in QueueCalls}
  /\ wpc = [w \in Workers |-> "idle"]
  /\ wjob = [w \in Workers |-> 0]
  /\ mailBox = EmptyBag
  /\ failedJobs = EmptyBag
  /\ executions = [j \in JobIds |-> 0]
  /\ runs = 0

NextScheduler ==
  \/ Tick
  \/ SendReminders

SpecScheduler == InitScheduler /\ [][NextScheduler]_vars

\* ------------------------------------------------------- claim vocabulary
Done(p) == pc[p] = "done"
Started == {p \in Calls : pc[p] # "idle"}
RowsOf(c) == {r \in registrations : r.committed /\ r.competitionId = c}
RowsWithKey(k) == {r \in registrations : r.idempotencyKey = k}
Succeeded(p) == Done(p) /\ result[p].type = "Registration"
\* The call returned a row it did not create: the idempotency lookup hit.
Hit(p) == Succeeded(p) /\ registration[p] = 0
\* The call targets a stored, not soft-deleted competition.
Live(p) ==
  /\ request[p].competitionId \in DOMAIN competitions
  /\ ~competitions[request[p].competitionId].deletedAt
\* The call was made after the registration deadline of its competition.
MadeLate(p) == invoked[p].late
Min(a, b) == IF a < b THEN a ELSE b

\* C1: in every reachable state the number of stored Registrations of a
\* competition is at most its capacity, under any interleaving of register calls.
C1_CapacityNeverExceeded ==
  \A c \in DOMAIN competitions :
    Cardinality(RowsOf(c)) <= competitions[c].capacity

\* C2: when N calls by N distinct users without idempotency keys on the open
\* competition (capacity C, deadline not passed, no prior registrations) have all
\* returned, exactly min(N, C) returned a Registration and every other one failed
\* with CapacityExceeded.
C2_ExactlyMinSucceed ==
  ( /\ \A p \in Started : Done(p)
    /\ \A p \in Started : /\ request[p].competitionId = OpenCompetition
                          /\ request[p].idempotencyKey = NoKey
    /\ \A p, q \in Started : p # q => request[p].userId # request[q].userId
    /\ now <= competitions[OpenCompetition].regDeadline )
  =>
  ( /\ Cardinality({p \in Started : Succeeded(p)})
         = Min(Cardinality(Started), competitions[OpenCompetition].capacity)
    /\ \A p \in Started : ~Succeeded(p) => result[p].type = "CapacityExceeded" )

\* C3: in every reachable state there is at most one Registration per
\* (userId, competitionId) pair, also when one user's calls run concurrently.
C3_OneRowPerUserCompetition ==
  \A r1, r2 \in registrations :
    (r1.userId = r2.userId /\ r1.competitionId = r2.competitionId) => r1.id = r2.id

\* C3 witness: two calls of one user for one competition raced; one stored the row
\* and the INSERT of the other was refused by the unique index.
C3_Witness ==
  \E p, q \in Calls :
    /\ p # q
    /\ request[p].userId = request[q].userId
    /\ request[p].competitionId = request[q].competitionId
    /\ Succeeded(p) /\ registration[p] = p
    /\ Done(q) /\ result[q].type = "UniqueConstraintViolation"

\* C4: a call carrying an idempotency key that is made after an earlier call with
\* that key has returned a Registration returns the same Registration id, and
\* exactly one row carries the key, however often the call is repeated.
C4_SequentialSameKeySameResult ==
  \A p \in Calls :
    (Done(p) /\ invoked[p].prior # 0) =>
      /\ result[p].type = "Registration"
      /\ result[p].id = invoked[p].prior
      /\ Cardinality(RowsWithKey(request[p].idempotencyKey)) = 1

\* C4 witness: the first call created the Registration and the same call, made
\* again after it returned, has returned too.
C4_Witness ==
  \E p, q \in Calls :
    /\ p # q
    /\ Succeeded(p) /\ registration[p] = p
    /\ Done(q) /\ invoked[q].prior = p
    /\ request[p] = request[q]

\* C5: a lookup step that finds a Registration with the call's idempotency key ends
\* the call with that Registration and writes nothing, whether or not the deadline
\* has passed or the competition is full: no other check runs after a hit.
C5_KeyHitBypassesChecks ==
  [][\A p \in Calls :
       LET found == {r \in registrations :
                       r.committed /\ r.idempotencyKey = request[p].idempotencyKey} IN
         (pc[p] = "lookup" /\ pc'[p] # "lookup" /\ found # {}) =>
           /\ pc'[p] = "done"
           /\ \E r \in found : result'[p] = Returned(r)
           /\ registrations' = registrations
           /\ emailQueue' = emailQueue]_vars

\* C5 witness: a call made after the deadline on a full competition returned the
\* stored Registration through its key.
C5_Witness ==
  \E p \in Calls :
    /\ Hit(p)
    /\ MadeLate(p)
    /\ request[p].competitionId = OpenCompetition
    /\ result[p].competitionId = OpenCompetition
    /\ competitions[OpenCompetition].capacity = 1

\* C6: at most one Registration carries a given idempotency key, and a key stored
\* on a Registration stays on that Registration in every later state.
C6_KeyMapsToOneRegistration ==
  [][/\ \A r \in registrations :
          \E r2 \in registrations' :
            /\ r2.id = r.id
            /\ r2.idempotencyKey = r.idempotencyKey
            /\ r2.userId = r.userId
            /\ r2.competitionId = r.competitionId
     /\ \A r1, r2 \in registrations' :
          (r1.idempotencyKey # NoKey /\ r1.idempotencyKey = r2.idempotencyKey)
            => r1.id = r2.id]_vars

\* C6 witness: two users sent the same key concurrently; one row carries it and the
\* INSERT of the other call was refused.
C6_Witness ==
  \E p, q \in Calls :
    /\ p # q
    /\ request[p].idempotencyKey # NoKey
    /\ request[p].idempotencyKey = request[q].idempotencyKey
    /\ request[p].userId # request[q].userId
    /\ Succeeded(p) /\ registration[p] = p
    /\ Done(q) /\ result[q].type = "UniqueConstraintViolation"

\* C7: of two calls with the same (competition, user, key), if one returned a
\* Registration then the other returned the same Registration, whatever the
\* interleaving, and one row carries the key.
C7_ConcurrentRetrySameResult ==
  \A p, q \in Calls :
    ( /\ p # q
      /\ Done(p) /\ Done(q)
      /\ request[p] = request[q]
      /\ request[p].idempotencyKey # NoKey
      /\ Succeeded(p) )
    =>
    ( /\ result[q] = result[p]
      /\ Cardinality(RowsWithKey(request[p].idempotencyKey)) = 1 )

\* C8 as stated: a call without idempotency key by a user who already holds a
\* Registration for the competition returns AlreadyRegistered.
C8_AlwaysAlreadyRegistered ==
  \A p \in Calls :
    (Done(p) /\ invoked[p].held /\ request[p].idempotencyKey = NoKey) =>
      result[p].type = "AlreadyRegistered"

\* C8 amended: such a call never returns a Registration and fails with
\* AlreadyRegistered when the deadline has not passed and the competition is not
\* full, otherwise with DeadlineExceeded or CapacityExceeded, the checks that come
\* first; the store never holds two rows for the pair.
C8_LaterCallRejected ==
  \A p \in Calls :
    (Done(p) /\ invoked[p].held /\ request[p].idempotencyKey = NoKey) =>
      LET c == request[p].competitionId
          open == now <= competitions[c].regDeadline
          room == Cardinality(RowsOf(c)) < competitions[c].capacity IN
        /\ result[p].type \in {"DeadlineExceeded", "CapacityExceeded", "AlreadyRegistered"}
        /\ (open /\ room) => result[p].type = "AlreadyRegistered"
        /\ result[p].type = "DeadlineExceeded" => ~open
        /\ result[p].type = "CapacityExceeded" => ~room
        /\ Cardinality({r \in registrations :
              r.userId = request[p].userId /\ r.competitionId = c}) = 1

\* C8 witness: a registered user's later call, made while the competition was open
\* and had room, was refused as AlreadyRegistered.
C8_Witness ==
  \E p \in Calls :
    /\ Done(p) /\ invoked[p].held /\ request[p].idempotencyKey = NoKey
    /\ result[p].type = "AlreadyRegistered"
    /\ Cardinality(RowsOf(request[p].competitionId))
         < competitions[request[p].competitionId].capacity

\* C9 as stated: every call made after the deadline of its (stored, not deleted)
\* competition fails with DeadlineExceeded.
C9_EveryLateCallFails ==
  \A p \in Calls :
    (Done(p) /\ Live(p) /\ MadeLate(p)) => result[p].type = "DeadlineExceeded"

\* C9 amended: a call made after the deadline of a stored, not deleted competition
\* creates no Registration, and it fails with DeadlineExceeded whatever the
\* remaining capacity unless its idempotency key hit a stored Registration.
C9_LateCallCreatesNothing ==
  \A p \in Calls :
    (Live(p) /\ MadeLate(p)) =>
      /\ registration[p] = 0
      /\ \A r \in registrations : r.id # p
      /\ Done(p) => \/ result[p].type = "DeadlineExceeded"
                    \/ /\ Hit(p)
                       /\ request[p].idempotencyKey # NoKey
                       /\ \E r \in RowsWithKey(request[p].idempotencyKey) :
                            result[p] = Returned(r)

\* C9 witness: a late call with an idempotency key no Registration carries failed
\* with DeadlineExceeded although the competition had room.
C9_Witness ==
  \E p \in Calls :
    /\ Done(p) /\ Live(p) /\ MadeLate(p)
    /\ request[p].idempotencyKey # NoKey
    /\ result[p].type = "DeadlineExceeded"
    /\ Cardinality(RowsOf(request[p].competitionId))
         < competitions[request[p].competitionId].capacity

\* C10: a call without idempotency-key hit for a competition id that is not stored
\* or is soft-deleted fails with NotFound, creates no Registration and enqueues no
\* task.
C10_MissingCompetitionNotFound ==
  \A p \in Calls :
    (Done(p) /\ ~Live(p) /\ ~Hit(p)) =>
      /\ result[p].type = "NotFound"
      /\ \A r \in registrations : r.id # p
      /\ \A j \in emailQueue : j.registrationId # p

\* C10 witness: one call for the soft-deleted competition and one for the unknown
\* id have both failed with NotFound.
C10_Witness ==
  \E p, q \in Calls :
    /\ Done(p) /\ request[p].competitionId = DeletedCompetition
    /\ result[p].type = "NotFound"
    /\ Done(q) /\ request[q].competitionId = AbsentCompetition
    /\ result[q].type = "NotFound"

TypedErrors == {"NotFound", "DeadlineExceeded", "CapacityExceeded", "AlreadyRegistered"}
\* The call stored a Registration and no job for it is in the queue.
EnqueueFailed(p) ==
  /\ Done(p) /\ registration[p] # 0
  /\ \A j \in emailQueue : j.registrationId # registration[p]

\* C11: every admit call ends with a Registration or with one of the four typed
\* errors NotFound, DeadlineExceeded, CapacityExceeded, AlreadyRegistered, under
\* any interleaving; no raw unique-constraint violation reaches the caller.
C11_OnlyTypedErrors ==
  \A p \in Calls :
    Done(p) => result[p].type \in {"Registration"} \cup TypedErrors

\* C12: when the enqueue of the Confirmation task failed after the commit, the call
\* has still returned the Registration and the Registration is stored.
C12_EnqueueFailureKeepsAdmission ==
  \A p \in Calls :
    EnqueueFailed(p) =>
      \E r \in registrations :
        /\ r.id = registration[p]
        /\ r.committed
        /\ result[p] = Returned(r)

\* C12 witness: a call whose enqueue failed has returned.
C12_Witness ==
  \E p \in Calls : EnqueueFailed(p) /\ emailQueue = {}

\* C13: every Confirmation task in the queue references a Registration that is
\* stored and committed: the task is enqueued only after the commit.
C13_JobAfterCommit ==
  \A j \in emailQueue :
    j.name = "sendConfirmation" =>
      \E r \in registrations : r.id = j.registrationId /\ r.committed

\* C13 witness: one call's task is queued while another call's row is still
\* uncommitted and has no task.
C13_Witness ==
  /\ \E j \in emailQueue : j.name = "sendConfirmation"
  /\ \E r \in registrations :
       /\ ~r.committed
       /\ \A j \in emailQueue : j.registrationId # r.id

\* ------------------------------------------------- queue claim vocabulary
\* The handler of job id has returned successfully: its MailBox row is written.
Mailed(id) == \E m \in BagToSet(mailBox) : m.jobId = id
Queued(id) == \E j \in emailQueue : j.id = id
\* The job has used up its attempts.
Exhausted(j) == j.attemptsMade >= j.attempts
\* The FailedJob rows written for job j, and how many they are.
DeadLetters(j) ==
  {e \in BagToSet(failedJobs) :
     e.jobName = j.name /\ e.jobData.registrationId = j.registrationId}
NumDeadLetters(j) == BagCardinality([e \in DeadLetters(j) |-> failedJobs[e]])

C15_BackoffDoubles ==
  \A j \in emailQueue :
    \A i \in DOMAIN j.backoffs : j.backoffs[i] = j.backoffDelay * Pow2(i - 1)

\* C16: a Confirmation job that failed on all of its attempts has at most one
\* FailedJob row, not one per failed attempt.
C16_OneDeadLetterPerExhaustedJob ==
  \A j \in emailQueue :
    (j.name = "sendConfirmation" /\ j.state = "failed") => NumDeadLetters(j) <= 1

\* C17: when a Confirmation job has exhausted its retries and FailedJob rows were
\* written for it, one of them records attempts = 3, the attempts made.
C17_DeadLetterRecordsAttemptsMade ==
  \A j \in emailQueue :
    (j.name = "sendConfirmation" /\ j.state = "failed" /\ DeadLetters(j) # {})
      => \E e \in DeadLetters(j) : e.attempts = j.attempts

\* C18: a FailedJob row exists only for a job that failed on its final permitted
\* attempt.
C18_DeadLetterOnlyWhenExhausted ==
  \A e \in BagToSet(failedJobs) :
    \E j \in emailQueue :
      /\ j.name = e.jobName /\ j.registrationId = e.jobData.registrationId
      /\ Exhausted(j)

C20_HangingHandlerReleased ==
  \A w \in Workers : (wpc[w] = "hung") ~> (wpc[w] # "hung")

\* The MailBox rows written for job id, counted with their copies.
NumMailed(id) ==
  BagCardinality([m \in {m \in BagToSet(mailBox) : m.jobId = id} |-> mailBox[m]])

\* C21: running the Confirmation handler twice for one job (redelivery after a
\* crash between the handler's completion and the acknowledgement) leaves at
\* most one MailBox row for the job.
C21_AtMostOneMailPerJob ==
  \A id \in JobIds : NumMailed(id) <= 1

\* C22: every job a worker has taken is dispatched to a handler registered for
\* its name, Reminder jobs like Confirmation jobs.
C22_EveryTakenJobHasHandler ==
  \A w \in Workers : wpc[w] # "idle" => JobOf(w).name \in Handlers

\* The reminder jobs in the queue that reference registration id.
RemindersOf(id) == {j \in ReminderJobsQueued : j.registrationId = id}

\* C23: one scheduler run adds exactly one Reminder job for every Registration of
\* every competition starting inside the lookahead window, and none for any
\* other Registration.
C23_OneReminderPerRegistrationInWindow ==
  [][runs' # runs =>
       LET added == emailQueue' \ emailQueue IN
         /\ \A j \in added : j.name = "sendReminder"
         /\ \A r \in Committed :
              Cardinality({j \in added : j.registrationId = r.id
                                         /\ j.userId = r.userId
                                         /\ j.competitionId = r.competitionId})
                = IF competitions[r.competitionId].startDate \in
                       (now + Lookahead)..(now + Lookahead + WindowDays - 1)
                  THEN 1 ELSE 0
         /\ Cardinality(added) =
              Cardinality({r \in Committed :
                 competitions[r.competitionId].startDate \in
                   (now + Lookahead)..(now + Lookahead + WindowDays - 1)})]_vars

\* C23 witness: one run found the competition in its window and added a Reminder
\* job for each of its Registrations, of which there are at least two.
C23_Witness ==
  /\ runs = 1
  /\ Cardinality(Committed) >= 2
  /\ \A r \in Committed : Cardinality(RemindersOf(r.id)) = 1

\* C24: across repeated scheduler runs at most one Reminder job is added per
\* Registration and window (a competition starts in one window only).
C24_AtMostOneReminderPerRegistration ==
  \A r \in Committed : Cardinality(RemindersOf(r.id)) <= 1

\* C25: no enqueued job is lost: every job that has left the wait, delayed and
\* active lists for good has been run by a handler at least once (it left a
\* MailBox row or a FailedJob row).
C25_EveryEndedJobWasHandled ==
  \A j \in emailQueue :
    j.state = "failed" => (Mailed(j.id) \/ DeadLetters(j) # {})

\* C26: inside the transaction the checks are evaluated in the order NotFound,
\* DeadlineExceeded, CapacityExceeded, AlreadyRegistered and the first failing
\* one decides the error; a user already registered gets CapacityExceeded on a
\* full competition and DeadlineExceeded after the deadline.
C26_FirstFailingCheckDecides ==
  [][\A p \in Calls :
       /\ (pc[p] = "txCheck" /\ pc'[p] # "txCheck") =>
            LET comp == competition[p]
                missing == ~comp.found \/ comp.deletedAt
                passed == now > comp.regDeadline
                full == comp.count >= comp.capacity
                held == \E r \in Committed : /\ r.userId = request[p].userId
                                             /\ r.competitionId = request[p].competitionId IN
              /\ missing => pc'[p] = "done" /\ result'[p].type = "NotFound"
              /\ (~missing /\ passed) =>
                   pc'[p] = "done" /\ result'[p].type = "DeadlineExceeded"
              /\ (~missing /\ ~passed /\ full) =>
                   pc'[p] = "done" /\ result'[p].type = "CapacityExceeded"
              /\ (~missing /\ ~passed /\ ~full) => pc'[p] = "txFind"
              /\ (held /\ pc'[p] = "done") => result'[p].type # "AlreadyRegistered"
       /\ (pc[p] = "txFind" /\ pc'[p] = "done") =>
            result'[p].type = "AlreadyRegistered"]_vars

\* C26 witness: a user who already held a Registration called after the deadline
\* on the full competition and got DeadlineExceeded.
C26_Witness ==
  \E p \in Calls :
    /\ Done(p) /\ invoked[p].held /\ invoked[p].late
    /\ request[p].idempotencyKey = NoKey
    /\ Cardinality(RowsOf(request[p].competitionId))
         >= competitions[request[p].competitionId].capacity
    /\ result[p].type = "DeadlineExceeded"

\* C27: a call that ends with NotFound, DeadlineExceeded, CapacityExceeded or
\* AlreadyRegistered has written nothing: the step that ends it leaves the
\* Registration table and the queue as they were, and the call has created no row.
C27_TypedErrorChangesNothing ==
  [][\A p \in Calls :
       (pc[p] # "done" /\ pc'[p] = "done" /\ result'[p].type \in TypedErrors) =>
         /\ registrations' = registrations
         /\ emailQueue' = emailQueue
         /\ registration[p] = 0
         /\ \A r \in registrations : r.id # p]_vars

\* C27 witness: a call was refused as AlreadyRegistered while one Registration is
\* stored and its job is queued.
C27_Witness ==
  \E p \in Calls :
    /\ Done(p) /\ result[p].type = "AlreadyRegistered"
    /\ Cardinality(Committed) = 1
    /\ Cardinality(emailQueue) = 1

\* C28: when the enqueue failed after the commit, no Confirmation job for the
\* Registration exists in any later state, whatever retries of the call follow.
C28_DroppedConfirmationStaysDropped ==
  [][\A p \in Calls : EnqueueFailed(p) => EnqueueFailed(p)']_vars

\* C28 witness: the enqueue of a call failed, a retry for the same user and
\* competition has ended, and the queue holds no job.
C28_Witness ==
  \E p, q \in Calls :
    /\ p # q
    /\ EnqueueFailed(p) /\ Done(q)
    /\ invoked[q].held
    /\ request[q].userId = request[p].userId
    /\ request[q].competitionId = request[p].competitionId
    /\ result[q].type \in {"Registration", "AlreadyRegistered"}
    /\ emailQueue = {}

\* C29: at most one Confirmation job is ever enqueued per Registration, and a
\* call that returned an existing Registration through a key hit enqueued none.
C29_OneConfirmationPerRegistration ==
  /\ \A j, k \in emailQueue :
       (j.name = "sendConfirmation" /\ k.name = "sendConfirmation"
        /\ j.registrationId = k.registrationId) => j = k
  /\ \A p \in Calls : Hit(p) => \A j \in emailQueue : j.id # p

\* C29 witness: a call returned through a key hit the Registration another call
\* created, and the queue holds the one job of that Registration.
C29_Witness ==
  \E p \in Calls :
    /\ Hit(p)
    /\ Cardinality({j \in emailQueue : j.registrationId = result[p].id}) = 1

\* C30: every Registration a call returns belongs to the calling user and to the
\* requested competition, also when it is returned through a key hit.
C30_ReturnedRegistrationIsCallers ==
  \A p \in Calls :
    Succeeded(p) => /\ result[p].userId = request[p].userId
                    /\ result[p].competitionId = request[p].competitionId

\* Job id has been removed after a successful execution.
RemovedAfterSuccess(id) == ~Queued(id) /\ Mailed(id)
\* Job id lies in the failed set after having failed attempts (3) times.
FailedForGood(id) ==
  \E j \in emailQueue :
    j.id = id /\ j.state = "failed" /\ j.attemptsMade = j.attempts

JobIn(q, id) == CHOOSE j \in q : j.id = id

\* C32: attemptsMade of a job changes only in the step in which a worker finishes
\* an execution of that job, never decreases, grows by exactly one with every
\* failed execution, and never exceeds attempts (3).
C32_AttemptCounterMonotone ==
  [][\A id \in JobIds :
       (Queued(id) /\ \E k \in emailQueue' : k.id = id) =>
         LET j == JobIn(emailQueue, id)
             k == JobIn(emailQueue', id)
             finishing == \E w \in Workers :
                            /\ wjob[w] = id /\ wpc[w] \in {"handler", "missing"}
                            /\ wpc'[w] = "idle" IN
           /\ k.attemptsMade >= j.attemptsMade
           /\ k.attemptsMade <= j.attempts
           /\ k.attemptsMade # j.attemptsMade =>
                finishing /\ k.attemptsMade = j.attemptsMade + 1
           /\ (finishing /\ j.state = "active") =>
                k.attemptsMade = j.attemptsMade + 1]_vars

\* C32 witness: a job has failed twice, attemptsMade is 2 and it waits for its
\* third execution.
C32_Witness ==
  \E j \in emailQueue :
    /\ j.attemptsMade = 2 /\ executions[j.id] = 2
    /\ j.state \in {"delayed", "waiting"}

\* C33: a Confirmation job that a worker took and that is gone from the queue
\* has a MailBox row carrying its job id, addressed to the registering user.
C33_CompletedJobHasMail ==
  \A p \in Calls :
    (executions[p] > 0 /\ ~Queued(p)) =>
      \E m \in BagToSet(mailBox) : m.jobId = p /\ m.userId = request[p].userId

\* C33 witness: a Confirmation job has been removed as succeeded after a failed
\* first execution.
C33_Witness ==
  \E p \in Calls :
    /\ executions[p] = 2 /\ ~Queued(p)
    /\ NumMailed(p) = 1

\* C34: the rows of the Registration table are never changed or deleted: every
\* stored row stays as it is (but for its commit), the committed rows only grow
\* in number, and so does the registration count of every competition.
C34_RegistrationsOnlyGrow ==
  [][/\ \A r \in registrations :
          \E r2 \in registrations' :
            /\ r2.id = r.id /\ r2.userId = r.userId
            /\ r2.competitionId = r.competitionId
            /\ r2.idempotencyKey = r.idempotencyKey
            /\ r.committed => r2.committed
     /\ \A c \in DOMAIN competitions :
          Cardinality({r \in registrations' : r.committed /\ r.competitionId = c})
            >= Cardinality(RowsOf(c))]_vars

\* C34 witness: two Registrations are stored and a later call for one of the
\* pairs has been refused.
C34_Witness ==
  /\ Cardinality(Committed) >= 1
  /\ \E p \in Calls :
       /\ Done(p) /\ registration[p] = 0
       /\ invoked[p].held
       /\ result[p].type \in {"AlreadyRegistered", "UniqueConstraintViolation"}

\* C35: after any sequence of register calls and updates of the competition, the
\* number of stored Registrations of a competition is at most its current
\* capacity.
C35_CapacityRespectedAfterUpdates ==
  (\A p \in Calls : pc[p] \in {"idle", "done"}) =>
    \A c \in DOMAIN competitions :
      Cardinality(RowsOf(c)) <= competitions[c].capacity

\* C36: the deadline check is inclusive: a call that reaches the check at a time
\* equal to the registration deadline it read passes it, and one that reaches it
\* strictly later is refused with DeadlineExceeded.
C36_DeadlineInclusive ==
  [][\A p \in Calls :
       (/\ pc[p] = "txCheck" /\ pc'[p] # "txCheck"
        /\ competition[p].found /\ ~competition[p].deletedAt) =>
         /\ now = competition[p].regDeadline => result'[p].type # "DeadlineExceeded"
         /\ now > competition[p].regDeadline => result'[p].type = "DeadlineExceeded"]_vars

\* C36 witness: a call made at the deadline instant has stored its Registration
\* while the clock still shows the deadline.
C36_Witness ==
  \E p \in Calls :
    /\ Succeeded(p) /\ registration[p] = p
    /\ now = competitions[request[p].competitionId].regDeadline

====
